---- MODULE Spec2Model ----
(***************************************************************************)
(* Eligibility for a time-bounded service period (src/python/main.py).     *)
(* A Person holds a gender and a birthdate; calculate_age and is_eligible  *)
(* are pure methods of it.  Dates are records [year, month, day] and ages  *)
(* are pairs <<years, months>>, as the (int, int) tuples of the source.    *)
(***************************************************************************)
EXTENDS Integers, Sequences, FiniteSets, TLC

VARIABLES person, op, set_date, age, result

vars == <<person, op, set_date, age, result>>

(* ---- bounds of the model: the birth years that are enumerated ---- *)
YearsBack == 66
YearsAhead == 1

(* ---- the datetime library, as far as the program uses it ---- *)
IsLeap(y) == (y % 4 = 0) /\ ((y % 100 # 0) \/ (y % 400 = 0))

DaysInMonth(y, m) ==
    IF m \in {4, 6, 9, 11} THEN 30
    ELSE IF m = 2 THEN (IF IsLeap(y) THEN 29 ELSE 28)
    ELSE 31

\* datetime(y, m, d) raises ValueError unless this holds
ValidDate(y, m, d) ==
    /\ y \in 1..9999
    /\ m \in 1..12
    /\ d \in 1..DaysInMonth(y, m)

datetime(y, m, d) == [year |-> y, month |-> m, day |-> d]

\* ordering of datetime values (time of day is always 00:00)
DateLT(a, b) ==
    \/ a.year < b.year
    \/ a.year = b.year /\ a.month < b.month
    \/ a.year = b.year /\ a.month = b.month /\ a.day < b.day

DateLE(a, b) == a = b \/ DateLT(a, b)

\* Python's None in a datetime position of the returned tuple
NoneDate == [year |-> 0, month |-> 0, day |-> 0]

(* ---- module constants ---- *)
START_DATE == datetime(2564, 6, 1)
END_DATE == datetime(2564, 8, 31)
SENIOR_LOWER_AGE == <<65, 0>>
CHILD_LOWER_AGE == <<0, 6>>
CHILD_UPPER_AGE == <<2, 0>>

Gender == {"Male", "Female"}

\* comparison of (years, months) tuples: lexicographic, as Python compares tuples
TupleLT(a, b) == a[1] < b[1] \/ (a[1] = b[1] /\ a[2] < b[2])

TupleLE(a, b) == a[1] < b[1] \/ (a[1] = b[1] /\ a[2] <= b[2])

(* ---- Person.calculate_age ---- *)
calculate_age_NoModulo(birthdate, sd) ==
    LET y0 == sd.year - birthdate.year
        age_years ==
            IF (sd.month < birthdate.month)
               \/ (sd.month = birthdate.month /\ sd.day < birthdate.day)
            THEN y0 - 1 ELSE y0
        age_months == sd.month - birthdate.month
    IN <<age_years, age_months>>

calculate_age(birthdate, sd) ==
    LET y0 == sd.year - birthdate.year
        age_years ==
            IF (sd.month < birthdate.month)
               \/ (sd.month = birthdate.month /\ sd.day < birthdate.day)
            THEN y0 - 1 ELSE y0
        age_months == ((sd.month - birthdate.month) + 12) % 12
    IN <<age_years, age_months>>

(* ---- Person.is_eligible ---- *)
Returned(e, s, en) == [raised |-> FALSE, eligible |-> e, start |-> s, end |-> en]

\* the datetime constructor raised ValueError; nothing is returned
Raised == [raised |-> TRUE, eligible |-> FALSE, start |-> NoneDate, end |-> NoneDate]

NotCalled == [raised |-> FALSE, eligible |-> FALSE, start |-> NoneDate, end |-> NoneDate]

\* mutants of the guards
RuleA_StrictChildLower(age_at_start, age_at_end) ==
    \/ TupleLE(SENIOR_LOWER_AGE, age_at_start)
    \/ TupleLT(CHILD_LOWER_AGE, age_at_start) /\ TupleLE(age_at_end, CHILD_UPPER_AGE)

RuleA_StrictChildUpper(age_at_start, age_at_end) ==
    \/ TupleLE(SENIOR_LOWER_AGE, age_at_start)
    \/ TupleLE(CHILD_LOWER_AGE, age_at_start) /\ TupleLT(age_at_end, CHILD_UPPER_AGE)

RuleB_Strict(age_at_start, age_at_end) == TupleLT(SENIOR_LOWER_AGE, age_at_end)

RuleC_NoLower(age_at_start, age_at_end) == TupleLT(age_at_end, CHILD_UPPER_AGE)

RuleD_NoStartCheck(age_at_start, age_at_end) == TupleLT(CHILD_UPPER_AGE, age_at_end)

\* "old enough and not too old"
RuleA(age_at_start, age_at_end) ==
    \/ TupleLE(SENIOR_LOWER_AGE, age_at_start)
    \/ TupleLE(CHILD_LOWER_AGE, age_at_start) /\ TupleLE(age_at_end, CHILD_UPPER_AGE)

\* "will be 65yo old within the period"
RuleB(age_at_start, age_at_end) == TupleLE(SENIOR_LOWER_AGE, age_at_end)

\* "will be 6mo within the period"
RuleC(age_at_start, age_at_end) ==
    TupleLE(CHILD_LOWER_AGE, age_at_end) /\ TupleLT(age_at_end, CHILD_UPPER_AGE)

\* "will be 2yo within the period"
RuleD(age_at_start, age_at_end) ==
    /\ TupleLT(CHILD_UPPER_AGE, age_at_end)
    /\ TupleLE(CHILD_LOWER_AGE, age_at_start)
    /\ TupleLE(age_at_start, CHILD_UPPER_AGE)

\* mutant: five months added instead of six
SixMonthsOn_Five(dob) ==
    IF ValidDate(dob.year, dob.month + 5, dob.day)
    THEN Returned(TRUE, datetime(dob.year, dob.month + 5, dob.day), END_DATE)
    ELSE Raised

\* return True, datetime(dob.year+65, dob.month, dob.day), END_DATE
SeniorWindow(dob) ==
    IF ValidDate(dob.year + 65, dob.month, dob.day)
    THEN Returned(TRUE, datetime(dob.year + 65, dob.month, dob.day), END_DATE)
    ELSE Raised

\* return True, datetime(dob.year, dob.month+6, dob.day), END_DATE
SixMonthsOn(dob) ==
    IF ValidDate(dob.year, dob.month + 6, dob.day)
    THEN Returned(TRUE, datetime(dob.year, dob.month + 6, dob.day), END_DATE)
    ELSE Raised

\* return True, START_DATE, datetime(dob.year+2, dob.month, dob.day)
TwoYearsOn(dob) ==
    IF ValidDate(dob.year + 2, dob.month, dob.day)
    THEN Returned(TRUE, START_DATE, datetime(dob.year + 2, dob.month, dob.day))
    ELSE Raised

is_eligible(dob) ==
    LET age_at_start == calculate_age(dob, START_DATE)
        age_at_end == calculate_age(dob, END_DATE)
    IN IF RuleA(age_at_start, age_at_end) THEN Returned(TRUE, START_DATE, END_DATE)
       ELSE IF RuleB(age_at_start, age_at_end) THEN SeniorWindow(dob)
       ELSE IF RuleC(age_at_start, age_at_end) THEN SixMonthsOn(dob)
       ELSE IF RuleD(age_at_start, age_at_end) THEN TwoYearsOn(dob)
       ELSE Returned(FALSE, NoneDate, NoneDate)

(* ---- inputs ---- *)
BirthYears == (START_DATE.year - YearsBack)..(START_DATE.year + YearsAhead)

DatesOf(years) ==
    {datetime(y, m, d) : y \in years, m \in 1..12, d \in 1..31} \
    {dt \in {datetime(y, m, d) : y \in years, m \in 1..12, d \in 29..31} :
        dt.day > DaysInMonth(dt.year, dt.month)}

Birthdates == DatesOf(BirthYears)

\* reference dates calculate_age is called with
SetDates ==
    {START_DATE, END_DATE, datetime(2564, 7, 15), datetime(2564, 2, 29),
     datetime(2563, 12, 31)}

(* ---- the state machine ---- *)
Init ==
    /\ person \in [gender : Gender, birthdate : Birthdates]
    /\ op = "new"
    /\ set_date = NoneDate
    /\ age = <<0, 0>>
    /\ result = NotCalled

CalculateAge(sd) ==
    /\ op' = "calculate_age"
    /\ set_date' = sd
    /\ age' = calculate_age(person.birthdate, sd)
    /\ result' = NotCalled
    /\ UNCHANGED person

IsEligible ==
    /\ op' = "is_eligible"
    /\ set_date' = NoneDate
    /\ age' = <<0, 0>>
    /\ result' = is_eligible(person.birthdate)
    /\ UNCHANGED person

Next ==
    \/ \E sd \in SetDates : CalculateAge(sd)
    \/ IsEligible

Spec == Init /\ [][Next]_vars

(* ---- vocabulary of the properties ---- *)
Called == op = "is_eligible"

dob == person.birthdate

ageAtStart == calculate_age(dob, START_DATE)

ageAtEnd == calculate_age(dob, END_DATE)

FullPeriod == Returned(TRUE, START_DATE, END_DATE)

Ineligible == Returned(FALSE, NoneDate, NoneDate)

\* calendar arithmetic, with the carry into the next year
AddYears(d, n) == [year |-> d.year + n, month |-> d.month, day |-> d.day]

AddMonths(d, n) ==
    [year |-> d.year + ((d.month - 1 + n) \div 12),
     month |-> ((d.month - 1 + n) % 12) + 1,
     day |-> d.day]

IsCalendarDate(d) == ValidDate(d.year, d.month, d.day)

InSeniorBracket(a) == TupleLE(<<65, 0>>, a)

InChildBracket(a) == TupleLE(<<0, 6>>, a) /\ TupleLE(a, <<2, 0>>)

Qualifies(a) == InSeniorBracket(a) \/ InChildBracket(a)

\* the guards of the decision list, restated from the ages
MatchA == InSeniorBracket(ageAtStart)
          \/ (TupleLE(<<0, 6>>, ageAtStart) /\ TupleLE(ageAtEnd, <<2, 0>>))

MatchB == InSeniorBracket(ageAtEnd)

MatchC == TupleLE(<<0, 6>>, ageAtEnd) /\ TupleLT(ageAtEnd, <<2, 0>>)

MatchD == TupleLT(<<2, 0>>, ageAtEnd) /\ InChildBracket(ageAtStart)

DatesBetween(a, b) ==
    {d \in DatesOf(a.year..b.year) : DateLE(a, d) /\ DateLE(d, b)}

(* ---- C1 ---- *)
\* C1: whenever is_eligible returns eligible, both window dates are present
\* and START_DATE <= windowStart <= windowEnd <= END_DATE.
C1_WindowInsidePeriod ==
    (Called /\ result.eligible) =>
        /\ result.start # NoneDate
        /\ result.end # NoneDate
        /\ DateLE(START_DATE, result.start)
        /\ DateLE(result.start, result.end)
        /\ DateLE(result.end, END_DATE)

(* ---- C2 ---- *)
\* C2: whenever is_eligible returns eligible, the person's age on every
\* calendar date of the returned window is in the senior or the child bracket.
C2_QualifiesThroughoutWindow ==
    (Called /\ result.eligible) =>
        \A d \in DatesBetween(result.start, result.end) :
            Qualifies(calculate_age(dob, d))

(* ---- C3 ---- *)
\* C3: Rule A: age at START_DATE >= (65,0), or age at START_DATE in
\* [(0,6),(2,0)] with age at END_DATE <= (2,0), gives the full service
\* period; birthdate 2499-03-10 is such a case.
C3_RuleAFullPeriod ==
    Called =>
        /\ InSeniorBracket(ageAtStart) => result = FullPeriod
        /\ (InChildBracket(ageAtStart) /\ TupleLE(ageAtEnd, <<2, 0>>))
              => result = FullPeriod
        /\ dob = datetime(2499, 3, 10) => result = FullPeriod

C3_Witness ==
    /\ Called
    /\ dob = datetime(2563, 12, 20)
    /\ ageAtStart = <<0, 6>>
    /\ result = FullPeriod

(* ---- C4 ---- *)
\* C4 as stated: age at END_DATE exactly (2,0) with age at START_DATE in the
\* child bracket gives Rule D's window [START_DATE, birthdate + 2 years] and
\* not Rule A's full period.
C4_UpperBoundIsRuleD ==
    (Called /\ ageAtEnd = <<2, 0>> /\ InChildBracket(ageAtStart)) =>
        /\ result = Returned(TRUE, START_DATE, AddYears(dob, 2))
        /\ result # FullPeriod

\* C4 amended: age at END_DATE exactly (2,0) with age at START_DATE in the
\* child bracket is still inside Rule A (<=), so the full period is returned.
C4_UpperBoundIsRuleA ==
    (Called /\ ageAtEnd = <<2, 0>> /\ InChildBracket(ageAtStart)) =>
        result = FullPeriod

C4_Witness ==
    /\ Called
    /\ dob = datetime(2562, 8, 15)
    /\ ageAtEnd = <<2, 0>>
    /\ InChildBracket(ageAtStart)
    /\ result = FullPeriod

(* ---- C5 ---- *)
\* C5: Rule B: when the 65th birthday d (birthdate + 65 years, same month and
\* day) lies in [START_DATE, END_DATE], the window is [d, END_DATE]; turning
\* 65 on START_DATE itself gives the full period.
C5_RuleBFromSixtyFifthBirthday ==
    LET d == AddYears(dob, 65)
    IN (Called /\ IsCalendarDate(d) /\ DateLE(START_DATE, d) /\ DateLE(d, END_DATE)) =>
        /\ result = Returned(TRUE, d, END_DATE)
        /\ d = START_DATE => result = FullPeriod

C5_Witness ==
    /\ Called
    /\ dob = datetime(2499, 8, 31)
    /\ ~MatchA
    /\ result = Returned(TRUE, END_DATE, END_DATE)

(* ---- C6 ---- *)
\* C6: Rule C: when Rules A and B do not match and (0,6) <= ageAtEnd < (2,0),
\* the result is (True, birthdate + 6 months, END_DATE); every birthdate with
\* ageAtStart = (0,5) and ageAtEnd = (0,7) is such a case.
C6_RuleCFromSixMonths ==
    Called =>
        /\ (~MatchA /\ ~MatchB /\ MatchC) =>
              /\ IsCalendarDate(AddMonths(dob, 6))
              /\ result = Returned(TRUE, AddMonths(dob, 6), END_DATE)
        /\ (ageAtStart = <<0, 5>> /\ ageAtEnd = <<0, 7>>) =>
              /\ ~MatchA /\ ~MatchB /\ MatchC
              /\ result = Returned(TRUE, AddMonths(dob, 6), END_DATE)

C6_Witness ==
    /\ Called
    /\ dob = datetime(2564, 1, 31)
    /\ ageAtStart = <<0, 5>>
    /\ ageAtEnd = <<0, 7>>
    /\ result = Returned(TRUE, datetime(2564, 7, 31), END_DATE)

(* ---- C7 ---- *)
\* C7: Rule D: when Rules A, B and C do not match, ageAtEnd > (2,0) and
\* (0,6) <= ageAtStart <= (2,0), the result is (True, START_DATE, birthdate +
\* 2 years) and that end date lies within [START_DATE, END_DATE].
C7_RuleDUntilSecondBirthday ==
    (Called /\ ~MatchA /\ ~MatchB /\ ~MatchC /\ MatchD) =>
        /\ result = Returned(TRUE, START_DATE, AddYears(dob, 2))
        /\ DateLE(START_DATE, result.end)
        /\ DateLE(result.end, END_DATE)

(* ---- C8 ---- *)
\* C8: is_eligible returns eligible exactly when one of Rules A-D matches,
\* the first match in the order A, B, C, D deciding the window; otherwise
\* the result is (False, None, None).
C8_EligibleIffSomeRule ==
    Called =>
        /\ ~result.raised
        /\ result.eligible <=> (MatchA \/ MatchB \/ MatchC \/ MatchD)
        /\ ~(MatchA \/ MatchB \/ MatchC \/ MatchD) => result = Ineligible
        /\ MatchA => result = FullPeriod
        /\ (~MatchA /\ MatchB) => result = Returned(TRUE, AddYears(dob, 65), END_DATE)
        /\ (~MatchA /\ ~MatchB /\ MatchC) =>
              result = Returned(TRUE, AddMonths(dob, 6), END_DATE)
        /\ (~MatchA /\ ~MatchB /\ ~MatchC /\ MatchD) =>
              result = Returned(TRUE, START_DATE, AddYears(dob, 2))
        /\ (TupleLT(<<2, 0>>, ageAtStart) /\ TupleLT(ageAtEnd, <<65, 0>>)) =>
              result = Ineligible
        /\ TupleLT(ageAtEnd, <<0, 6>>) => result = Ineligible

C8_Witness ==
    /\ Called
    /\ dob = datetime(2530, 5, 5)
    /\ TupleLT(<<2, 0>>, ageAtStart)
    /\ TupleLT(ageAtEnd, <<65, 0>>)
    /\ result = Ineligible

(* ---- C9 ---- *)
\* C9 as stated: every age calculate_age returns has years >= 0 and months
\* in [0,11].
C9_AgeNonNegative ==
    /\ op = "calculate_age" => (age[1] >= 0 /\ age[2] \in 0..11)
    /\ Called => (ageAtStart[1] >= 0 /\ ageAtStart[2] \in 0..11
                  /\ ageAtEnd[1] >= 0 /\ ageAtEnd[2] \in 0..11)

\* C9 amended: months is always in [0,11]; years is >= 0 exactly when the
\* birthdate is not after the reference date, and negative otherwise.
C9_AgeRange ==
    /\ op = "calculate_age" =>
          /\ age[2] \in 0..11
          /\ age[1] >= 0 <=> DateLE(dob, set_date)
    /\ Called =>
          \A sd \in {START_DATE, END_DATE} :
              /\ calculate_age(dob, sd)[2] \in 0..11
              /\ calculate_age(dob, sd)[1] >= 0 <=> DateLE(dob, sd)

C9_Witness ==
    /\ op = "calculate_age"
    /\ set_date = START_DATE
    /\ dob = datetime(2564, 7, 15)
    /\ age = <<-1, 11>>

(* ---- C10 ---- *)
\* C10: with the fixed service period, is_eligible raises for no valid
\* birthdate: the date Rule B, C or D constructs is always a calendar date.
C10_NoInvalidDate ==
    Called =>
        /\ ~result.raised
        /\ result.eligible => (IsCalendarDate(result.start) /\ IsCalendarDate(result.end))

C10_Witness ==
    /\ Called
    /\ dob = datetime(2564, 2, 29)
    /\ ~MatchA /\ ~MatchB /\ MatchC
    /\ result = Returned(TRUE, datetime(2564, 8, 29), END_DATE)

====
